---- MODULE Spec2Model ----
(***************************************************************************)
(* A model of review-script.py, the ENAAS configuration review tool:       *)
(* the command line (main), the directory discovery, the batch loop and    *)
(* the four checks of one review (file validity, manifest placeholders,    *)
(* registry matching, secret references).                                  *)
(*                                                                         *)
(* Text is modelled as a sequence of one-character strings; the marker     *)
(* <ENAAS_PLACEHOLDER> is one token of width 19 in manifest text.  A       *)
(* Python dict is a sequence of [k, v] entries in insertion order.  A      *)
(* parsed JSON/YAML value is a tagged record (none, str, map, seq).  The   *)
(* parsers themselves (json.loads, yaml.safe_load) are outside the         *)
(* program: a file carries its text and the outcome each parser gives.     *)
(***************************************************************************)
EXTENDS Integers, Sequences, FiniteSets, TLC

VARIABLES
    fs,                 \* the file system: directory node -> files, children
    argv,               \* sys.argv[1:]
    pc,                 \* position of the process
    enaas_file,         \* self.enaas_file
    secret_file,        \* self.secret_file
    dc_file,            \* self.dc_file (NoPath when absent)
    enaas_data,         \* self.enaas_data
    secret_data,        \* self.secret_data
    dc_data,            \* self.dc_data
    result,             \* self.result, a ReviewResult
    console,            \* the failure lines printed by the checks
    scan_root,          \* scan_root of _scan_openshift_directories
    stack,              \* call stack of scan_directory_recursive
    scanned_dirs,       \* scanned_dirs
    file_combinations,  \* file_combinations
    first_scan,         \* file_combinations of an earlier scan of the same tree
    results,            \* results of run_batch_review
    batch_i,            \* loop index i of run_batch_review (0 outside the loop)
    exit_code           \* process exit code (-1 while running)

vars == <<fs, argv, pc, enaas_file, secret_file, dc_file, enaas_data,
          secret_data, dc_data, result, console, scan_root, stack,
          scanned_dirs, file_combinations, first_scan, results, batch_i,
          exit_code>>

(***************************************************************************)
(* Strings                                                                 *)
(***************************************************************************)
S_json        == <<".", "j", "s", "o", "n">>
S_yml         == <<".", "y", "m", "l">>
S_yaml        == <<".", "y", "a", "m", "l">>
S_secret_yml  == <<"_", "s", "e", "c", "r", "e", "t">> \o S_yml
S_secret_yaml == <<"_", "s", "e", "c", "r", "e", "t">> \o S_yaml
S_dc_yml      == <<"_", "d", "c">> \o S_yml
S_dc_yaml     == <<"_", "d", "c">> \o S_yaml
S_enaas       == <<"e", "n", "a", "a", "s">>

\* str.endswith
EndsWith(s, suf) ==
    /\ Len(s) >= Len(suf)
    /\ SubSeq(s, Len(s) - Len(suf) + 1, Len(s)) = suf

\* str.startswith
StartsWith(s, pre) == Len(s) >= Len(pre) /\ SubSeq(s, 1, Len(pre)) = pre

\* The 0-based offsets at which sub occurs in s
Occurrences(s, sub) ==
    {i \in 0..(Len(s) - Len(sub)) : SubSeq(s, i + 1, i + Len(sub)) = sub}

\* str.find(sub, i): 0-based, -1 when absent
FindFrom(s, sub, i) ==
    LET at == {j \in Occurrences(s, sub) : j >= i}
    IN  IF at = {} THEN -1 ELSE CHOOSE j \in at : \A k \in at : j <= k

Find(s, sub) == FindFrom(s, sub, 0)

\* sub in s
Contains(s, sub) == Find(s, sub) >= 0

\* str.replace(old, ""): every non-overlapping occurrence, left to right
RECURSIVE RemoveAll(_, _)
RemoveAll(s, old) ==
    IF Len(s) < Len(old) THEN s
    ELSE IF SubSeq(s, 1, Len(old)) = old
         THEN RemoveAll(SubSeq(s, Len(old) + 1, Len(s)), old)
         ELSE <<Head(s)>> \o RemoveAll(Tail(s), old)

\* str.lower on the letters file names use
LowerChar(c) ==
    CASE c = "E" -> "e" [] c = "N" -> "n" [] c = "A" -> "a" [] c = "S" -> "s"
      [] OTHER -> c

Lower(s) == [i \in 1..Len(s) |-> LowerChar(s[i])]

\* separator.join(parts)
RECURSIVE Join(_, _)
Join(sep, parts) ==
    IF parts = <<>> THEN <<>>
    ELSE IF Len(parts) = 1 THEN parts[1]
    ELSE parts[1] \o sep \o Join(sep, Tail(parts))

\* Path.suffix: from the last dot of the name, unless that dot leads or ends it
RECURSIVE LastDot(_, _)
LastDot(s, i) == IF i = 0 THEN 0 ELSE IF s[i] = "." THEN i ELSE LastDot(s, i - 1)

Suffix(name) ==
    LET i == LastDot(name, Len(name))
    IN  IF i > 1 /\ i < Len(name) THEN SubSeq(name, i, Len(name)) ELSE <<>>

\* str(n) for a natural number
DigitChars == <<"0", "1", "2", "3", "4", "5", "6", "7", "8", "9">>

RECURSIVE Decimal(_)
Decimal(n) ==
    IF n < 10 THEN <<DigitChars[n + 1]>>
    ELSE Decimal(n \div 10) \o <<DigitChars[(n % 10) + 1]>>

(***************************************************************************)
(* Parsed values, dicts and paths                                          *)
(***************************************************************************)
NoneV      == [t |-> "none"]
StrV(s)    == [t |-> "str", s |-> s]
MapV(items) == [t |-> "map", items |-> items]
SeqV(items) == [t |-> "seq", items |-> items]

\* Python truthiness: None, "", {} and [] are false
Truthy(v) ==
    CASE v.t = "none" -> FALSE
      [] v.t = "str"  -> v.s # <<>>
      [] OTHER        -> v.items # <<>>

\* k in d, d[k], d.keys() for a dict d (a sequence of entries)
Has(d, k) == \E i \in 1..Len(d) : d[i].k = k
Get(d, k) == d[CHOOSE i \in 1..Len(d) : d[i].k = k].v
Values(d) == [i \in 1..Len(d) |-> d[i].v]

\* d.get(k, {}) for a parsed map document
GetOrEmpty(doc, k) == IF Has(doc.items, k) THEN Get(doc.items, k) ELSE <<>>

\* x in list
InList(x, list) == \E i \in 1..Len(list) : list[i] = x

\* A path is a directory (names below the working directory) and a file name.
\* Path(dc_file) if dc_file else None: the path with the empty name is None.
PathOf(dir, name) == [dir |-> dir, name |-> name]
NoPath == PathOf(<<>>, <<>>)

\* The directory node a directory path leads to (symbolic links followed)
RECURSIVE NodeOf(_, _)
NodeOf(f, dir) ==
    IF dir = <<>> THEN 0
    ELSE f[NodeOf(f, SubSeq(dir, 1, Len(dir) - 1))].children[dir[Len(dir)]]

\* Path.exists and the file behind a path
Exists(f, path) == path.name \in DOMAIN f[NodeOf(f, path.dir)].files
FileAt(f, path) == f[NodeOf(f, path.dir)].files[path.name]

(***************************************************************************)
(* Defects and results                                                     *)
(***************************************************************************)
\* FileError: the description is a tag, detail holds the names it quotes
FileError(file_name, line_number, char_position, description, detail) ==
    [file_name |-> file_name, line_number |-> line_number,
     char_position |-> char_position, description |-> description,
     detail |-> detail]

SecretKeyError(file_name, line_number, char_position, secret_name, secret_key, description) ==
    [file_name |-> file_name, line_number |-> line_number,
     char_position |-> char_position, secret_name |-> secret_name,
     secret_key |-> secret_key, description |-> description]

ReviewResult(file_errors, secret_key_errors, placeholder_count, secret_ref_match, secret_ref_names) ==
    [file_errors |-> file_errors, secret_key_errors |-> secret_key_errors,
     placeholder_count |-> placeholder_count,
     secret_ref_match |-> secret_ref_match,
     secret_ref_names |-> secret_ref_names]

\* Mutant of has_errors: a recorded reference mismatch counts as an error
HasErrorsOrMismatch(r) ==
    \/ Len(r.file_errors) > 0
    \/ Len(r.secret_key_errors) > 0
    \/ (r.secret_ref_names[1] # <<>> /\ ~r.secret_ref_match)

has_errors(r) == Len(r.file_errors) > 0 \/ Len(r.secret_key_errors) > 0

total_errors(r) == Len(r.file_errors) + Len(r.secret_key_errors)

(***************************************************************************)
(* ENAASReviewerV2.__init__ and the naming convention                      *)
(***************************************************************************)
secret_base(sf) == RemoveAll(RemoveAll(sf.name, S_secret_yml), S_secret_yaml)

dc_base(df) == RemoveAll(RemoveAll(df.name, S_dc_yml), S_dc_yaml)

_validate_file_naming_convention(ef, sf, df) ==
    (IF ~EndsWith(ef.name, S_json)
     THEN <<FileError(ef.name, 0, 0, "EnaasNotJson", <<>>)>> ELSE <<>>)
    \o
    (IF ~EndsWith(sf.name, S_secret_yml) /\ ~EndsWith(sf.name, S_secret_yaml)
     THEN <<FileError(sf.name, 0, 0, "SecretSuffix", <<>>)>> ELSE <<>>)
    \o
    (IF df # NoPath
     THEN (IF ~EndsWith(df.name, S_dc_yml) /\ ~EndsWith(df.name, S_dc_yaml)
           THEN <<FileError(df.name, 0, 0, "DcSuffix", <<>>)>> ELSE <<>>)
          \o
          (IF secret_base(sf) # dc_base(df)
           THEN <<FileError(df.name, 0, 0, "BaseNameMismatch",
                            <<dc_base(df), secret_base(sf)>>)>>
           ELSE <<>>)
     ELSE <<>>)

\* The reviewer state __init__ leaves
NewReviewer(ef, sf, df) ==
    /\ enaas_file' = ef
    /\ secret_file' = sf
    /\ dc_file' = df
    /\ enaas_data' = NoneV
    /\ secret_data' = NoneV
    /\ dc_data' = NoneV
    /\ result' = ReviewResult(_validate_file_naming_convention(ef, sf, df),
                              <<>>, 0, FALSE, <<<<>>, <<>>>>)

(***************************************************************************)
(* 1. File validity                                                        *)
(***************************************************************************)
\* str.split('\n')
RECURSIVE SplitLines(_)
SplitLines(text) ==
    LET i == Find(text, <<"\n">>)
    IN  IF i < 0 THEN <<text>>
        ELSE <<SubSeq(text, 1, i)>> \o SplitLines(SubSeq(text, i + 2, Len(text)))

\* file.readlines(): every line keeps its newline, no empty last line
RECURSIVE ReadLines(_)
ReadLines(text) ==
    LET i == Find(text, <<"\n">>)
    IN  IF text = <<>> THEN <<>>
        ELSE IF i < 0 THEN <<text>>
        ELSE <<SubSeq(text, 1, i + 1)>> \o ReadLines(SubSeq(text, i + 2, Len(text)))

IsSpace(c) == c \in {" ", "\t", "\n"}

\* len(line) - len(line.lstrip())
RECURSIVE LeadingSpace(_)
LeadingSpace(line) ==
    IF line # <<>> /\ IsSpace(Head(line)) THEN 1 + LeadingSpace(Tail(line)) ELSE 0

\* line.strip() is non-empty
NonBlank(line) == \E i \in 1..Len(line) : ~IsSpace(line[i])

_calculate_json_error_position(content, pos) ==
    IF pos >= Len(content) THEN <<1, 1>>
    ELSE LET lines == SplitLines(SubSeq(content, 1, pos))
         IN  <<Len(lines), Len(lines[Len(lines)]) + 1>>

\* error.problem_mark when the error carries one, else line 1, column 1
_calculate_yaml_error_position(err) ==
    IF err.has_mark THEN <<err.mark_line + 1, err.mark_column + 1>> ELSE <<1, 1>>

\* The defects of one line of the indentation scan
IndentationOfLine(name, line_num, line) ==
    IF NonBlank(line) /\ ~StartsWith(line, <<"#">>)
    THEN (IF Contains(line, <<"\t">>)
          THEN <<FileError(name, line_num, Find(line, <<"\t">>) + 1,
                           "TabIndent", <<>>)>>
          ELSE <<>>)
         \o
         (LET indent == LeadingSpace(line)
          IN  IF indent % 2 # 0 /\ indent > 0
              THEN <<FileError(name, line_num, indent + 1, "OddIndent", <<>>)>>
              ELSE <<>>)
    ELSE <<>>

RECURSIVE IndentationOfLines(_, _, _)
IndentationOfLines(name, lines, line_num) ==
    IF line_num > Len(lines) THEN <<>>
    ELSE IndentationOfLine(name, line_num, lines[line_num])
         \o IndentationOfLines(name, lines, line_num + 1)

\* The file errors _validate_yaml_indentation appends for a file
_validate_yaml_indentation(name, file) ==
    IF ~file.readable
    THEN <<FileError(name, 0, 0, "IndentCheckFailed", <<>>)>>
    ELSE IndentationOfLines(name, ReadLines(file.text), 1)

\* The reviewer state the validation threads through: the three documents
\* and the file errors
LoadState(ed, sd, dd, errs) ==
    [enaas_data |-> ed, secret_data |-> sd, dc_data |-> dd, file_errors |-> errs]

Appended(st, errs) == [st EXCEPT !.file_errors = @ \o errs]

LoadFailed(st, name) ==
    Appended(st, <<FileError(name, 0, 0, "LoadFailed", <<>>)>>)

\* json.loads stores into enaas_data whichever file is read
_validate_json_file(st, path, file) ==
    IF ~file.readable THEN LoadFailed(st, path.name)
    ELSE IF file.json.ok THEN [st EXCEPT !.enaas_data = file.json.doc]
    ELSE LET p == _calculate_json_error_position(file.text, file.json.pos)
         IN  Appended(st, <<FileError(path.name, p[1], p[2], "JsonError", <<>>)>>)

_validate_yaml_file(st, path, file, sf, df) ==
    LET st1 == Appended(st, _validate_yaml_indentation(path.name, file))
    IN  IF ~file.readable THEN LoadFailed(st1, path.name)
        ELSE IF path # sf /\ path # df THEN st1
        ELSE IF file.yaml.ok
             THEN IF path = sf THEN [st1 EXCEPT !.secret_data = file.yaml.doc]
                  ELSE [st1 EXCEPT !.dc_data = file.yaml.doc]
        ELSE LET p == _calculate_yaml_error_position(file.yaml)
             IN  Appended(st1, <<FileError(path.name, p[1], p[2], "YamlError", <<>>)>>)

\* _validate_file_basics on a file that exists
_validate_file_basics(st, path, file) ==
    IF Len(file.text) = 0
    THEN Appended(st, <<FileError(path.name, 0, 0, "EmptyFile", <<>>)>>)
    ELSE st

_validate_single_file(f, st, path, sf, df) ==
    IF ~Exists(f, path) THEN LoadFailed(st, path.name)
    ELSE LET file == FileAt(f, path)
             st1 == _validate_file_basics(st, path, file)
         IN  IF Suffix(path.name) = S_json
             THEN _validate_json_file(st1, path, file)
             ELSE IF Suffix(path.name) \in {S_yml, S_yaml}
             THEN _validate_yaml_file(st1, path, file, sf, df)
             ELSE st1

\* Mutant of ValidateFiles: the loop ends at the first file that does not exist
RECURSIVE ValidateUntilMissing(_, _, _, _, _)
ValidateUntilMissing(f, st, files, sf, df) ==
    IF files = <<>> THEN st
    ELSE IF ~Exists(f, Head(files)) THEN LoadFailed(st, Head(files).name)
    ELSE ValidateUntilMissing(f, _validate_single_file(f, st, Head(files), sf, df),
                              Tail(files), sf, df)

\* The loop of _check_files_validity over files_to_check
RECURSIVE ValidateFiles(_, _, _, _, _)
ValidateFiles(f, st, files, sf, df) ==
    IF files = <<>> THEN st
    ELSE ValidateFiles(f, _validate_single_file(f, st, Head(files), sf, df),
                       Tail(files), sf, df)

files_to_check(ef, sf, df) == <<ef, sf>> \o (IF df # NoPath THEN <<df>> ELSE <<>>)

(***************************************************************************)
(* 2. Secret manifest validity: the placeholder grammar                    *)
(***************************************************************************)
\* '<ENAAS_PLACEHOLDER>'
TAG == <<"<", "E", "N", "A", "A", "S", "_", "P", "L", "A", "C", "E", "H",
         "O", "L", "D", "E", "R", ">">>

\* A printed failure line: a tag and the names it quotes
Line(msg, args) == [msg |-> msg, args |-> args]

\* The line that names a top-level registry key
KeyLine(msg, key) == [msg |-> msg, args |-> <<>>, key |-> key]

\* str.count: non-overlapping occurrences
RECURSIVE Count(_, _)
Count(s, sub) ==
    LET i == Find(s, sub)
    IN  IF i < 0 THEN 0
        ELSE 1 + Count(SubSeq(s, i + Len(sub) + 1, Len(s)), sub)

\* re.findall(r'<ENAAS_PLACEHOLDER>(.*?)<ENAAS_PLACEHOLDER>', content) from
\* offset pos: the leftmost marker that has a later marker on its line opens
\* a match, the nearest later marker closes it ('.' matches no newline)
RECURSIVE ExtractFrom(_, _)
ExtractFrom(content, pos) ==
    LET i == FindFrom(content, TAG, pos)
        j == FindFrom(content, TAG, i + Len(TAG))
        body == SubSeq(content, i + Len(TAG) + 1, j)
    IN  IF i < 0 THEN <<>>
        ELSE IF j < 0 THEN <<>>
        ELSE IF Contains(body, <<"\n">>) THEN ExtractFrom(content, j)
        ELSE <<body>> \o ExtractFrom(content, j + Len(TAG))

_extract_placeholders(content) == ExtractFrom(content, 0)

RECURSIVE TagErrorsOfLines(_, _, _)
TagErrorsOfLines(name, lines, line_num) ==
    IF line_num > Len(lines) THEN <<>>
    ELSE LET line == lines[line_num]
             tags_in_line == Count(line, TAG)
         IN  (IF tags_in_line > 0 /\ tags_in_line % 2 # 0
              THEN <<SecretKeyError(name, line_num, Find(line, TAG) + 1,
                                    <<>>, <<>>, "TagUnpaired")>>
              ELSE <<>>)
             \o TagErrorsOfLines(name, lines, line_num + 1)

\* Mutant of _check_placeholder_tags: the markers of the whole text are
\* counted, not those of each line
TagsOfWholeText(name, content) == TagErrorsOfLines(name, <<content>>, 1)

\* The secret key errors _check_placeholder_tags appends
_check_placeholder_tags(name, content) ==
    TagErrorsOfLines(name, SplitLines(content), 1)

\* _read_file_content succeeds
CanRead(f, path) == Exists(f, path) /\ FileAt(f, path).readable

(***************************************************************************)
(* 3. Secret matching: the registry cross-checks                           *)
(***************************************************************************)
required_keys == <<"keys", "autoKeys", "encodedKeys">>

\* The failure line of _validate_enaas_structure, <<>> when it returns True
RECURSIVE MissingKeyLines(_, _)
MissingKeyLines(doc, i) ==
    IF i > Len(required_keys) THEN <<>>
    ELSE IF doc.t # "map" \/ ~Has(doc.items, required_keys[i])
         THEN <<KeyLine("MissingRequiredKey", required_keys[i])>>
         ELSE MissingKeyLines(doc, i + 1)

StructureLines(doc) ==
    LET missing == MissingKeyLines(doc, 1)
    IN  IF missing # <<>> THEN missing
        ELSE IF Get(doc.items, "keys") = <<>>
             THEN <<KeyLine("NoAppCode", "keys")>>
             ELSE <<>>

_validate_enaas_structure(doc) == StructureLines(doc) = <<>>

\* The lines printed for one encodedKeys[app][secret] list
RECURSIVE EncodedKeyLines(_, _, _, _)
EncodedKeyLines(known, app_name, secret_name, encoded_key_list) ==
    IF encoded_key_list = <<>> THEN <<>>
    ELSE (IF ~InList(Head(encoded_key_list), known)
          THEN <<Line("EncodedKeyMissing",
                      <<Head(encoded_key_list), app_name, secret_name>>)>>
          ELSE <<>>)
         \o EncodedKeyLines(known, app_name, secret_name, Tail(encoded_key_list))

\* The lines printed for the secrets of one application of encodedKeys
RECURSIVE EncodedSecretLines(_, _, _)
EncodedSecretLines(app_keys, app_name, secret_configs) ==
    IF secret_configs = <<>> THEN <<>>
    ELSE LET secret_name == Head(secret_configs).k
         IN  (IF ~Has(app_keys, secret_name)
              THEN <<Line("EncodedSecretMissing", <<secret_name>>)>>
              ELSE EncodedKeyLines(Get(app_keys, secret_name), app_name,
                                   secret_name, Head(secret_configs).v))
             \o EncodedSecretLines(app_keys, app_name, Tail(secret_configs))

RECURSIVE EncodedAppLines(_, _)
EncodedAppLines(keys_data, encoded_keys_data) ==
    IF encoded_keys_data = <<>> THEN <<>>
    ELSE LET app_name == Head(encoded_keys_data).k
         IN  (IF ~Has(keys_data, app_name)
              THEN <<Line("EncodedAppMissing", <<app_name>>)>>
              ELSE EncodedSecretLines(Get(keys_data, app_name), app_name,
                                      Head(encoded_keys_data).v))
             \o EncodedAppLines(keys_data, Tail(encoded_keys_data))

\* _check_encoded_keys_consistency: it prints, and appends nothing to result
_check_encoded_keys_consistency(doc) ==
    EncodedAppLines(GetOrEmpty(doc, "keys"), GetOrEmpty(doc, "encodedKeys"))

\* Mutant of _is_valid_keys_placeholder: the split is at the last underscore
KeysPlaceholderSplitLast(doc, placeholder) ==
    LET at == Occurrences(placeholder, <<"_">>)
        u == CHOOSE j \in at : \A k \in at : j >= k
        secret_name == SubSeq(placeholder, 1, u)
        key_name == SubSeq(placeholder, u + 2, Len(placeholder))
        keys_data == GetOrEmpty(doc, "keys")
    IN  /\ at # {}
        /\ \E a \in 1..Len(keys_data) :
              /\ Has(keys_data[a].v, secret_name)
              /\ InList(key_name, Get(keys_data[a].v, secret_name))

_is_valid_keys_placeholder(doc, placeholder) ==
    LET u == Find(placeholder, <<"_">>)
        secret_name == SubSeq(placeholder, 1, u)
        key_name == SubSeq(placeholder, u + 2, Len(placeholder))
        keys_data == GetOrEmpty(doc, "keys")
    IN  /\ u >= 0
        /\ \E a \in 1..Len(keys_data) :
              /\ Has(keys_data[a].v, secret_name)
              /\ InList(key_name, Get(keys_data[a].v, secret_name))

_is_valid_auto_keys_placeholder(doc, placeholder) ==
    LET auto == GetOrEmpty(doc, "autoKeys")
    IN  \E a \in 1..Len(auto) :
          \E t \in 1..Len(auto[a].v) :
            \E x \in 1..Len(auto[a].v[t].v) :
              placeholder = auto[a].v[t].k \o <<"_">> \o auto[a].v[t].v[x]

_validate_placeholder_content(doc, placeholder) ==
    \/ _is_valid_keys_placeholder(doc, placeholder)
    \/ _is_valid_auto_keys_placeholder(doc, placeholder)

RECURSIVE PositionInLines(_, _, _)
PositionInLines(placeholder, lines, line_num) ==
    IF line_num > Len(lines) THEN <<1, 1>>
    ELSE IF Contains(lines[line_num], placeholder)
         THEN <<line_num, Find(lines[line_num], placeholder) + 1>>
         ELSE PositionInLines(placeholder, lines, line_num + 1)

_find_placeholder_position(placeholder, content) ==
    PositionInLines(placeholder, SplitLines(content), 1)

RECURSIVE ContentErrors(_, _, _, _)
ContentErrors(doc, name, placeholders, content) ==
    IF placeholders = <<>> THEN <<>>
    ELSE LET placeholder == Head(placeholders)
             p == _find_placeholder_position(placeholder, content)
         IN  (IF ~_validate_placeholder_content(doc, placeholder)
              THEN <<SecretKeyError(name, p[1], p[2], <<>>, placeholder,
                                    "NotInEnaas")>>
              ELSE <<>>)
             \o ContentErrors(doc, name, Tail(placeholders), content)

\* The secret key errors _check_placeholder_content_matching appends
_check_placeholder_content_matching(doc, name, content) ==
    ContentErrors(doc, name, _extract_placeholders(content), content)

(***************************************************************************)
(* 4. Secret reference validity                                            *)
(***************************************************************************)
S_metadata == <<"m", "e", "t", "a", "d", "a", "t", "a">>

\* 'metadata' in self.secret_data, for a mapping, a sequence or a string
HasMetadata(doc) ==
    CASE doc.t = "map" -> Has(doc.items, "metadata")
      [] doc.t = "seq" -> InList(StrV(S_metadata), doc.items)
      [] doc.t = "str" -> Contains(doc.s, S_metadata)
      [] OTHER         -> FALSE

\* _get_secret_name: the value returned, or raises when ['metadata'].get fails
_get_secret_name(doc) ==
    IF ~(Truthy(doc) /\ HasMetadata(doc)) THEN [raises |-> FALSE, v |-> NoneV]
    ELSE IF doc.t # "map" \/ Get(doc.items, "metadata").t # "map"
         THEN [raises |-> TRUE, v |-> NoneV]
    ELSE LET metadata == Get(doc.items, "metadata").items
         IN  [raises |-> FALSE,
              v |-> IF Has(metadata, "name") THEN Get(metadata, "name") ELSE NoneV]

\* _find_secret_refs: the (name, path) pairs in visit order; a path is the
\* sequence of keys and list indices from the root
RECURSIVE _find_secret_refs(_, _)
RECURSIVE RefsOfItems(_, _)
RECURSIVE RefsOfList(_, _, _)

RefsOfItems(items, path) ==
    IF items = <<>> THEN <<>>
    ELSE LET key == Head(items).k
             value == Head(items).v
             current_path == path \o <<key>>
         IN  (IF key = "secretRef" /\ value.t = "map" /\ Has(value.items, "name")
              THEN <<<<Get(value.items, "name"), current_path>>>>
              ELSE _find_secret_refs(value, current_path))
             \o RefsOfItems(Tail(items), path)

RefsOfList(items, path, i) ==
    IF i > Len(items) THEN <<>>
    ELSE _find_secret_refs(items[i], path \o <<DigitChars[i]>>)
         \o RefsOfList(items, path, i + 1)

_find_secret_refs(obj, path) ==
    IF obj.t = "map" THEN RefsOfItems(obj.items, path)
    ELSE IF obj.t = "seq" THEN RefsOfList(obj.items, path, 1)
    ELSE <<>>

\* ref[0] for ref in secret_refs
RefNames(secret_refs) == [i \in 1..Len(secret_refs) |-> secret_refs[i][1]]

\* ", ".join(ref_names) raises TypeError unless every name is a str
CanJoin(ref_names) == \A i \in 1..Len(ref_names) : ref_names[i].t = "str"

JoinNames(ref_names) ==
    Join(<<",", " ">>, [i \in 1..Len(ref_names) |-> ref_names[i].s])

\* Mutant of AllMatch: any() in place of all()
AnyMatch(ref_names, secret_name) ==
    \E i \in 1..Len(ref_names) : ref_names[i] = secret_name

\* all(ref_name == secret_name for ref_name in ref_names)
AllMatch(ref_names, secret_name) ==
    \A i \in 1..Len(ref_names) : ref_names[i] = secret_name

\* The identity as stored in the pair: the text of a str, else the value
Stored(v) == IF v.t = "str" THEN v.s ELSE v

(***************************************************************************)
(* Directory discovery                                                     *)
(***************************************************************************)
\* The depth limit of both recursive walks (if depth > 10: return)
MaxDepth == 10

\* The name of the working directory
CwdName == <<"w">>

\* directory.glob('*' + suffix): nothing when the directory cannot be listed
Glob(f, dir, suffix) ==
    LET node == f[NodeOf(f, dir)]
    IN  IF node.listable
        THEN {n \in DOMAIN node.files : EndsWith(n, suffix)}
        ELSE {}

\* directory.iterdir() entries with is_dir(); PermissionError is skipped
SubDirs(f, dir) ==
    LET node == f[NodeOf(f, dir)]
    IN  IF node.listable THEN DOMAIN node.children ELSE {}

Hidden(name) == StartsWith(name, <<".">>)

\* The files that can be the first of glob(a) + glob(b), in some listing order
FirstOf(a, b) == IF a # {} THEN a ELSE b

\* Mutant of EnaasChoices: any *.json file is taken for the registry
AnyJsonChoices(f, dir) == Glob(f, dir, S_json)

\* The files the loop over enaas_files can stop at: the first *.json in the
\* listing whose lower-cased name contains 'enaas'
EnaasChoices(f, dir) ==
    {n \in Glob(f, dir, S_json) : Contains(Lower(n), S_enaas)}

SecretChoices(f, dir) ==
    FirstOf(Glob(f, dir, S_secret_yml), Glob(f, dir, S_secret_yaml))

DcChoices(f, dir) == FirstOf(Glob(f, dir, S_dc_yml), Glob(f, dir, S_dc_yaml))

\* A chosen file as a path, None (NoPath) when there is no candidate
Lifted(dir, names) ==
    IF names = {} THEN {NoPath} ELSE {PathOf(dir, n) : n \in names}

Combination(e, sf, df) == [enaas |-> e, secret |-> sf, dc |-> df]

\* _find_directory_recursively: the directories it can return, over all
\* listing orders ({} when it returns None)
RECURSIVE _find_directory_recursively(_, _, _, _, _)
_find_directory_recursively(f, root_dir, name, target_name, depth) ==
    IF depth > MaxDepth THEN {}
    ELSE IF name = target_name THEN {root_dir}
    ELSE UNION {_find_directory_recursively(f, root_dir \o <<item>>, item,
                                            target_name, depth + 1) :
                item \in {c \in SubDirs(f, root_dir) : ~Hidden(c)}}

\* A frame of scan_directory_recursive: before its body ran (entered false)
\* or inside its loop over iterdir(), todo being the entries not yet reached
Frame(directory, depth) ==
    [directory |-> directory, depth |-> depth, entered |-> FALSE, todo |-> {}]

Top == stack[Len(stack)]
Popped == SubSeq(stack, 1, Len(stack) - 1)

\* scan_directory_recursive, from its call to the start of its loop
ScanCall ==
    /\ pc = "scan"
    /\ stack # <<>>
    /\ ~Top.entered
    /\ IF Top.depth > MaxDepth \/ Top.directory \in scanned_dirs
       THEN /\ stack' = Popped
            /\ pc' = IF Popped = <<>> THEN "scanned" ELSE "scan"
            /\ UNCHANGED <<scanned_dirs, file_combinations, console>>
       ELSE /\ scanned_dirs' = scanned_dirs \cup {Top.directory}
            /\ \E e \in Lifted(Top.directory, EnaasChoices(fs, Top.directory)),
                  sf \in Lifted(Top.directory, SecretChoices(fs, Top.directory)),
                  df \in Lifted(Top.directory, DcChoices(fs, Top.directory)) :
                 /\ file_combinations' =
                      IF e # NoPath /\ sf # NoPath
                      THEN Append(file_combinations, Combination(e, sf, df))
                      ELSE file_combinations
                 /\ console' =
                      IF e # NoPath /\ sf = NoPath
                      THEN Append(console, Line("MissingSecretFile", <<e.name>>))
                      ELSE console
            /\ stack' = [stack EXCEPT ![Len(stack)] =
                           [@ EXCEPT !.entered = TRUE,
                                     !.todo = SubDirs(fs, Top.directory)]]
            /\ pc' = "scan"
    /\ UNCHANGED <<fs, argv, enaas_file, secret_file, dc_file, enaas_data,
                   secret_data, dc_data, result, scan_root, first_scan,
                   results, batch_i, exit_code>>

\* One iteration of the loop over directory.iterdir(), in any listing order
ScanIter ==
    /\ pc = "scan"
    /\ stack # <<>>
    /\ Top.entered
    /\ \E item \in Top.todo :
         LET rest == [stack EXCEPT ![Len(stack)] =
                        [@ EXCEPT !.todo = @ \ {item}]]
         IN  stack' = IF ~Hidden(item)
                      THEN Append(rest, Frame(Top.directory \o <<item>>,
                                              Top.depth + 1))
                      ELSE rest
    /\ UNCHANGED <<fs, argv, pc, enaas_file, secret_file, dc_file, enaas_data,
                   secret_data, dc_data, result, console, scan_root,
                   scanned_dirs, file_combinations, first_scan, results,
                   batch_i, exit_code>>

\* The loop is exhausted: scan_directory_recursive returns
ScanReturn ==
    /\ pc = "scan"
    /\ stack # <<>>
    /\ Top.entered
    /\ Top.todo = {}
    /\ stack' = Popped
    /\ pc' = IF Popped = <<>> THEN "scanned" ELSE "scan"
    /\ UNCHANGED <<fs, argv, enaas_file, secret_file, dc_file, enaas_data,
                   secret_data, dc_data, result, console, scan_root,
                   scanned_dirs, file_combinations, first_scan, results,
                   batch_i, exit_code>>

\* A second scan of the unchanged tree from the same scan root (again an
\* empty list when the target directory does not exist)
ScanAgain ==
    /\ pc = "scanned"
    /\ ~first_scan.done
    /\ first_scan' = [done |-> TRUE, units |-> file_combinations]
    /\ file_combinations' = <<>>
    /\ IF Len(argv) = 2 /\ argv[2] # <<>>
          /\ _find_directory_recursively(fs, <<>>, CwdName, argv[2], 0) = {}
       THEN UNCHANGED <<scanned_dirs, stack, pc>>
       ELSE /\ scanned_dirs' = {}
            /\ stack' = <<Frame(scan_root, 0)>>
            /\ pc' = "scan"
    /\ UNCHANGED <<fs, argv, enaas_file, secret_file, dc_file, enaas_data,
                   secret_data, dc_data, result, console, scan_root, results,
                   batch_i, exit_code>>

(***************************************************************************)
(* run_review: the four checks of one reviewer                             *)
(***************************************************************************)
scanVars == <<scan_root, stack, scanned_dirs, file_combinations, first_scan>>

\* 1. _check_files_validity
CheckFilesValidity ==
    /\ pc = "files"
    /\ LET st == ValidateFiles(fs,
                    LoadState(enaas_data, secret_data, dc_data, result.file_errors),
                    files_to_check(enaas_file, secret_file, dc_file),
                    secret_file, dc_file)
       IN  /\ enaas_data' = st.enaas_data
           /\ secret_data' = st.secret_data
           /\ dc_data' = st.dc_data
           /\ result' = [result EXCEPT !.file_errors = st.file_errors]
    /\ pc' = "manifest"
    /\ UNCHANGED <<fs, argv, enaas_file, secret_file, dc_file, console,
                   scanVars, results, batch_i, exit_code>>

\* 2. _check_secret_manifest_validity
CheckSecretManifestValidity ==
    /\ pc = "manifest"
    /\ IF ~Truthy(secret_data)
       THEN /\ console' = Append(console, Line("ManifestNotLoaded", <<>>))
            /\ UNCHANGED result
       ELSE IF ~CanRead(fs, secret_file)
       THEN /\ console' = Append(console, Line("ManifestCheckFailed", <<>>))
            /\ UNCHANGED result
       ELSE LET secret_content == FileAt(fs, secret_file).text
                placeholders == _extract_placeholders(secret_content)
            IN  /\ result' = [result EXCEPT
                     !.placeholder_count = Len(placeholders),
                     !.secret_key_errors =
                         @ \o _check_placeholder_tags(secret_file.name,
                                                      secret_content)]
                /\ UNCHANGED console
    /\ pc' = "matching"
    /\ UNCHANGED <<fs, argv, enaas_file, secret_file, dc_file, enaas_data,
                   secret_data, dc_data, scanVars, results, batch_i, exit_code>>

\* 3. _check_secret_matching
CheckSecretMatching ==
    /\ pc = "matching"
    /\ IF ~Truthy(enaas_data) \/ ~Truthy(secret_data)
       THEN /\ console' = Append(console, Line("MatchNotLoaded", <<>>))
            /\ UNCHANGED result
       ELSE IF ~_validate_enaas_structure(enaas_data)
       THEN /\ console' = console \o StructureLines(enaas_data)
            /\ UNCHANGED result
       ELSE IF ~CanRead(fs, secret_file)
       THEN /\ console' = console \o _check_encoded_keys_consistency(enaas_data)
                          \o <<Line("PlaceholderCheckFailed", <<>>)>>
            /\ UNCHANGED result
       ELSE /\ console' = console \o _check_encoded_keys_consistency(enaas_data)
            /\ result' = [result EXCEPT !.secret_key_errors =
                   @ \o _check_placeholder_content_matching(
                            enaas_data, secret_file.name,
                            FileAt(fs, secret_file).text)]
    /\ pc' = "reference"
    /\ UNCHANGED <<fs, argv, enaas_file, secret_file, dc_file, enaas_data,
                   secret_data, dc_data, scanVars, results, batch_i, exit_code>>

\* 4. _check_secret_reference_validity
CheckSecretReferenceValidity ==
    /\ pc = "reference"
    /\ LET secret_name == _get_secret_name(secret_data)
           secret_refs == _find_secret_refs(dc_data, <<>>)
           ref_names == RefNames(secret_refs)
           all_match == AllMatch(ref_names, secret_name.v)
       IN  IF dc_file = NoPath
           THEN /\ console' = Append(console, Line("NoDcFile", <<>>))
                /\ UNCHANGED result
           ELSE IF ~Truthy(dc_data) \/ ~Truthy(secret_data)
           THEN /\ console' = Append(console, Line("ReferenceNotLoaded", <<>>))
                /\ UNCHANGED result
           ELSE IF secret_name.raises
           THEN /\ console' = Append(console, Line("ReferenceCheckFailed", <<>>))
                /\ UNCHANGED result
           ELSE IF ~Truthy(secret_name.v)
           THEN /\ console' = IF HasMetadata(secret_data) THEN console
                              ELSE Append(console, Line("NoMetadataName", <<>>))
                /\ UNCHANGED result
           ELSE IF secret_refs = <<>>
           THEN /\ console' = Append(console, Line("NoSecretRef", <<>>))
                /\ UNCHANGED result
           ELSE IF ~CanJoin(ref_names)
           THEN /\ console' = Append(console, Line("ReferenceCheckFailed", <<>>))
                /\ UNCHANGED result
           ELSE /\ result' = [result EXCEPT
                     !.secret_ref_names =
                         <<Stored(secret_name.v), JoinNames(ref_names)>>,
                     !.secret_ref_match = all_match]
                /\ console' = IF all_match THEN console
                              ELSE Append(console, Line("ReferenceMismatch", <<>>))
    /\ pc' = "reviewed"
    /\ UNCHANGED <<fs, argv, enaas_file, secret_file, dc_file, enaas_data,
                   secret_data, dc_data, scanVars, results, batch_i, exit_code>>

(***************************************************************************)
(* run_batch_review                                                        *)
(***************************************************************************)
\* The result the except branch builds for combination i; "#" stands for
\* the fixed prefix of its file_name, followed by str(i)
ErrorResult(i) ==
    ReviewResult(<<FileError(<<"#">> \o Decimal(i), 0, 0, "CheckFailed", <<>>)>>,
                 <<>>, 0, FALSE, <<<<>>, <<>>>>)

\* After the scan: return [] when nothing was found, else start the loop
RunBatch ==
    /\ pc = "scanned"
    /\ results' = <<>>
    /\ batch_i' = 0
    /\ IF file_combinations = <<>>
       THEN pc' = "exit_batch" /\ exit_code' = 0
       ELSE pc' = "next" /\ UNCHANGED exit_code
    /\ UNCHANGED <<fs, argv, enaas_file, secret_file, dc_file, enaas_data,
                   secret_data, dc_data, result, console, scanVars>>

\* Mutant of NextUnit: one reviewer is reused for every combination, its
\* documents and its result carried over
NextUnitSameReviewer ==
    /\ pc = "next"
    /\ batch_i < Len(file_combinations)
    /\ batch_i' = batch_i + 1
    /\ enaas_file' = file_combinations[batch_i + 1].enaas
    /\ secret_file' = file_combinations[batch_i + 1].secret
    /\ dc_file' = file_combinations[batch_i + 1].dc
    /\ pc' = "files"
    /\ UNCHANGED <<fs, argv, console, scan_root, stack, scanned_dirs,
                   file_combinations, first_scan, results, exit_code,
                   enaas_data, secret_data, dc_data, result>>

\* The next combination: a new reviewer is created for it
NextUnit ==
    /\ pc = "next"
    /\ batch_i < Len(file_combinations)
    /\ batch_i' = batch_i + 1
    /\ LET c == file_combinations[batch_i + 1]
       IN  NewReviewer(c.enaas, c.secret, c.dc)
    /\ pc' = "files"
    /\ UNCHANGED <<fs, argv, console, scanVars, results, exit_code>>

\* run_review returned: results.append(result)
AppendResult ==
    /\ pc = "reviewed"
    /\ batch_i > 0
    /\ results' = Append(results, result)
    /\ pc' = "next"
    /\ UNCHANGED <<fs, argv, enaas_file, secret_file, dc_file, enaas_data,
                   secret_data, dc_data, result, console, scanVars, batch_i,
                   exit_code>>

\* Mutant of ReviewRaises: the error of one combination ends the batch
ReviewRaisesEndsBatch ==
    /\ pc \in {"files", "manifest", "matching", "reference", "reviewed"}
    /\ pc' = IF batch_i > 0 THEN "exit_batch" ELSE "exit_crash"
    /\ exit_code' = 1
    /\ UNCHANGED <<fs, argv, enaas_file, secret_file, dc_file, enaas_data,
                   secret_data, dc_data, result, console, scan_root, stack,
                   scanned_dirs, file_combinations, first_scan, results,
                   batch_i>>

\* run_review raised an unexpected error (one no check catches, such as a
\* failing print): the batch records an error result, the explicit mode dies
ReviewRaises ==
    /\ pc \in {"files", "manifest", "matching", "reference", "reviewed"}
    /\ IF batch_i > 0
       THEN /\ results' = Append(results, ErrorResult(batch_i))
            /\ pc' = "next"
            /\ UNCHANGED exit_code
       ELSE /\ pc' = "exit_crash"
            /\ exit_code' = 1
            /\ UNCHANGED results
    /\ UNCHANGED <<fs, argv, enaas_file, secret_file, dc_file, enaas_data,
                   secret_data, dc_data, result, console, scanVars, batch_i>>

\* The loop is over: the summary is printed, main returns
BatchDone ==
    /\ pc = "next"
    /\ batch_i = Len(file_combinations)
    /\ pc' = "exit_batch"
    /\ exit_code' = 0
    /\ UNCHANGED <<fs, argv, enaas_file, secret_file, dc_file, enaas_data,
                   secret_data, dc_data, result, console, scanVars, results,
                   batch_i>>

(***************************************************************************)
(* main                                                                    *)
(***************************************************************************)
\* "review openshift manifest"
REVIEW_CMD == <<"r", "e", "v", "i", "e", "w", " ", "o", "p", "e", "n", "s",
                "h", "i", "f", "t", " ", "m", "a", "n", "i", "f", "e", "s",
                "t">>

S_dummy_json == <<"d", "u", "m", "m", "y">> \o S_json
S_dummy_yml  == <<"d", "u", "m", "m", "y">> \o S_yml

\* len(sys.argv) >= 2 and sys.argv[1] == "review openshift manifest"
ScanMode == Len(argv) >= 1 /\ argv[1] = REVIEW_CMD

\* Neither the scan mode nor two or three paths: usage, sys.exit(1)
MainUsage ==
    /\ pc = "main"
    /\ ~ScanMode
    /\ Len(argv) \notin {2, 3}
    /\ pc' = "exit_usage"
    /\ exit_code' = 1
    /\ UNCHANGED <<fs, argv, enaas_file, secret_file, dc_file, enaas_data,
                   secret_data, dc_data, result, console, scanVars, results,
                   batch_i>>

\* The explicit mode: the reviewer of the two or three paths given
MainExplicit ==
    /\ pc = "main"
    /\ ~ScanMode
    /\ Len(argv) \in {2, 3}
    /\ NewReviewer(PathOf(<<>>, argv[1]), PathOf(<<>>, argv[2]),
                   IF Len(argv) = 3 THEN PathOf(<<>>, argv[3]) ELSE NoPath)
    /\ pc' = "files"
    /\ UNCHANGED <<fs, argv, console, scanVars, results, batch_i, exit_code>>

\* The explicit mode ends: sys.exit(0 if not result.has_errors else 1)
ExitReview ==
    /\ pc = "reviewed"
    /\ batch_i = 0
    /\ exit_code' = IF ~has_errors(result) THEN 0 ELSE 1
    /\ pc' = "exit_review"
    /\ UNCHANGED <<fs, argv, enaas_file, secret_file, dc_file, enaas_data,
                   secret_data, dc_data, result, console, scanVars, results,
                   batch_i>>

\* The scan mode: a dummy reviewer, then run_batch_review up to the start of
\* the recursive scan (the target directory, when one is named, is resolved)
MainDiscovery ==
    /\ pc = "main"
    /\ ScanMode
    /\ NewReviewer(PathOf(<<>>, S_dummy_json), PathOf(<<>>, S_dummy_yml), NoPath)
    /\ LET target_directory == IF Len(argv) = 2 THEN argv[2] ELSE <<>>
           found == _find_directory_recursively(fs, <<>>, CwdName,
                                                target_directory, 0)
       IN  IF target_directory = <<>>
           THEN /\ scan_root' = <<>>
                /\ stack' = <<Frame(<<>>, 0)>>
                /\ console' = console
                /\ pc' = "scan"
           ELSE IF found = {}
           THEN /\ console' = Append(console, Line("TargetNotFound",
                                                   <<target_directory>>))
                /\ pc' = "scanned"
                /\ UNCHANGED <<scan_root, stack>>
           ELSE /\ \E target_path \in found :
                     /\ scan_root' = target_path
                     /\ stack' = <<Frame(target_path, 0)>>
                /\ console' = console
                /\ pc' = "scan"
    /\ UNCHANGED <<fs, argv, scanned_dirs, file_combinations, first_scan,
                   results, batch_i, exit_code>>

(***************************************************************************)
(* Inputs: files, documents and command lines                              *)
(***************************************************************************)
\* The concatenations of at most n chunks
RECURSIVE Words(_, _)
Words(chunks, n) ==
    IF n = 0 THEN {<<>>}
    ELSE LET shorter == Words(chunks, n - 1)
         IN  shorter \cup {w \o c : w \in shorter, c \in chunks}

\* What a parser makes of a file
JsonOk(doc)  == [ok |-> TRUE, doc |-> doc, pos |-> 0]
JsonBad(pos) == [ok |-> FALSE, doc |-> NoneV, pos |-> pos]
YamlOk(doc)  == [ok |-> TRUE, doc |-> doc, has_mark |-> FALSE,
                 mark_line |-> 0, mark_column |-> 0]
YamlBad(has_mark, line, column) ==
    [ok |-> FALSE, doc |-> NoneV, has_mark |-> has_mark,
     mark_line |-> line, mark_column |-> column]

File(text, json, yaml) ==
    [readable |-> TRUE, text |-> text, json |-> json, yaml |-> yaml]

Unreadable(file) == [file EXCEPT !.readable = FALSE]

\* A zero-byte file: json.loads("") fails at offset 0, yaml.safe_load gives None
EmptyFile == File(<<>>, JsonBad(0), YamlOk(NoneV))

Dir(files, children) ==
    [files |-> files, children |-> children, listable |-> TRUE]

Entry(k, v) == [k |-> k, v |-> v]

\* File names
N_enaas       == S_enaas \o S_json
N_ENAAS       == <<"E", "N", "A", "A", "S">> \o S_json
N_x_json      == <<"x">> \o S_json
N_a_secret    == <<"a">> \o S_secret_yml
N_b_secret    == <<"b">> \o S_secret_yml
N_a_secret_ya == <<"a">> \o S_secret_yaml
N_a_dc        == <<"a">> \o S_dc_yml

\* Registry documents: keys x.a = [b, b_a], y.b = [a]; autoKeys x.a_b = [c]
KeysOne == <<Entry(<<"x">>, <<Entry(<<"a">>, <<<<"b">>, <<"b", "_", "a">>>>)>>)>>
KeysTwo == KeysOne \o <<Entry(<<"y">>, <<Entry(<<"b">>, <<<<"a">>>>)>>)>>
AutoOne == <<Entry(<<"x">>, <<Entry(<<"a", "_", "b">>, <<<<"c">>>>)>>)>>

\* encodedKeys: consistent; unknown application first; unknown secret first;
\* unknown keys around a known one; all three at once
EncOk        == <<Entry(<<"x">>, <<Entry(<<"a">>, <<<<"b">>>>)>>)>>
EncBadApp    == <<Entry(<<"z">>, <<Entry(<<"a">>, <<<<"b">>>>)>>)>> \o EncOk
EncBadSecret == <<Entry(<<"x">>, <<Entry(<<"z">>, <<<<"b">>>>),
                                   Entry(<<"a">>, <<<<"b">>>>)>>)>>
EncBadKey    == <<Entry(<<"x">>, <<Entry(<<"a">>, <<<<"c">>, <<"b">>, <<"d">>>>)>>)>>
EncMixed     == <<Entry(<<"z">>, <<Entry(<<"a">>, <<<<"b">>>>)>>),
                  Entry(<<"x">>, <<Entry(<<"z">>, <<<<"b">>>>),
                                   Entry(<<"a">>, <<<<"c">>, <<"b">>>>)>>)>>

Present(v) == [present |-> TRUE, v |-> v]
Absent     == [present |-> FALSE, v |-> <<>>]

Optional(k, choice) == IF choice.present THEN <<Entry(k, choice.v)>> ELSE <<>>

RegistryDoc(keys, auto, encoded) ==
    MapV(Optional("keys", keys) \o Optional("autoKeys", auto)
         \o Optional("encodedKeys", encoded))

RegistryText == <<"{", "\n", "}">>

RegistryFile(doc) == File(RegistryText, JsonOk(doc), YamlOk(doc))

\* A registry that is not JSON: the parser stops at offset 2, on line 2
MalformedRegistry == File(<<"{", "\n", "x">>, JsonBad(2), YamlBad(TRUE, 1, 0))

GoodRegistry == RegistryDoc(Present(KeysOne), Present(AutoOne), Present(EncOk))

\* Manifest documents: metadata.name = name
ManifestDoc(name) ==
    MapV(<<Entry("metadata", MapV(<<Entry("name", name)>>))>>)

\* A manifest with the given text; an empty text parses to None
ManifestFile(text, doc) ==
    File(text, JsonBad(0), YamlOk(IF text = <<>> THEN NoneV ELSE doc))

Placeholder(c) == TAG \o c \o TAG

C_ab  == <<"a", "_", "b">>
C_aba == <<"a", "_", "b", "_", "a">>
C_abc == <<"a", "_", "b", "_", "c">>
C_ba  == <<"b", "_", "a">>

GoodManifest == ManifestFile(<<"k", ":", " ">> \o Placeholder(C_ab) \o <<"\n">>,
                             ManifestDoc(StrV(<<"a">>)))

\* One marker without its pair on the second line
OddManifest == ManifestFile(<<"k", ":", "\n", " ", " ">> \o TAG \o C_ab,
                            ManifestDoc(StrV(<<"a">>)))

\* Descriptor documents
SecretRef(name) == MapV(<<Entry("secretRef", MapV(<<Entry("name", name)>>))>>)

DcDoc(items) == MapV(<<Entry("spec", SeqV(items))>>)

DcFile(doc) == File(<<"s", ":", " ", "x", "\n">>, JsonBad(0), YamlOk(doc))

GoodDc == DcFile(DcDoc(<<SecretRef(StrV(<<"a">>))>>))

EmptyResult == ReviewResult(<<>>, <<>>, 0, FALSE, <<<<>>, <<>>>>)

\* The process before main runs, on file system f with arguments a
Start(f, a) ==
    /\ fs = f
    /\ argv = a
    /\ pc = "main"
    /\ enaas_file = NoPath
    /\ secret_file = NoPath
    /\ dc_file = NoPath
    /\ enaas_data = NoneV
    /\ secret_data = NoneV
    /\ dc_data = NoneV
    /\ result = EmptyResult
    /\ console = <<>>
    /\ scan_root = <<>>
    /\ stack = <<>>
    /\ scanned_dirs = {}
    /\ file_combinations = <<>>
    /\ first_scan = [done |-> FALSE, units |-> <<>>]
    /\ results = <<>>
    /\ batch_i = 0
    /\ exit_code = -1

\* A working directory that holds the given files and no directory
Flat(files) == 0 :> Dir(files, <<>>)

\* The explicit mode
NextExplicit ==
    \/ MainExplicit
    \/ CheckFilesValidity
    \/ CheckSecretManifestValidity
    \/ CheckSecretMatching
    \/ CheckSecretReferenceValidity
    \/ ExitReview

(***************************************************************************)
(* SpecNames: the explicit mode over manifest and descriptor names          *)
(***************************************************************************)
MaxNameChunks == 2

NameChunks == {<<"a">>, <<"b">>, S_secret_yml, S_secret_yaml, S_dc_yml, S_dc_yaml}

Names == Words(NameChunks, MaxNameChunks) \ {<<>>}

InitNames ==
    \E sn \in Names, dn \in Names :
        Start(Flat((N_enaas :> RegistryFile(GoodRegistry))
                   @@ (sn :> GoodManifest) @@ (dn :> GoodDc)),
              <<N_enaas, sn, dn>>)

SpecNames == InitNames /\ [][NextExplicit]_vars

(***************************************************************************)
(* SpecRegistry: the explicit mode over registry files                      *)
(***************************************************************************)
Maybe(name, choice) == IF choice.present THEN name :> choice.v ELSE <<>>

RegistryDocs ==
    {RegistryDoc(k, a, e) :
        k \in {Absent, Present(<<>>), Present(KeysOne)},
        a \in {Absent, Present(<<>>), Present(AutoOne)},
        e \in {Absent, Present(<<>>), Present(EncOk), Present(EncBadApp),
               Present(EncBadSecret), Present(EncBadKey), Present(EncMixed)}}

RegistryFiles ==
    {EmptyFile, MalformedRegistry, Unreadable(RegistryFile(GoodRegistry)),
     RegistryFile(MapV(<<>>))}
    \cup {RegistryFile(d) : d \in RegistryDocs}

UnknownManifest == ManifestFile(Placeholder(C_ba) \o <<"\n">> \o Placeholder(C_ab),
                                ManifestDoc(StrV(<<"a">>)))

BrokenManifest == File(<<"k", ":", "\n", "\t", "x">>, JsonBad(0), YamlBad(TRUE, 1, 0))

ManifestFiles == {GoodManifest, OddManifest, UnknownManifest, BrokenManifest,
                  EmptyFile}

InitRegistry ==
    \E r \in {Absent} \cup {Present(x) : x \in RegistryFiles},
       m \in {Absent} \cup {Present(x) : x \in ManifestFiles},
       withDc \in BOOLEAN :
        Start(Flat(Maybe(N_enaas, r) @@ Maybe(N_a_secret, m) @@ (N_a_dc :> GoodDc)),
              <<N_enaas, N_a_secret>> \o (IF withDc THEN <<N_a_dc>> ELSE <<>>))

SpecRegistry == InitRegistry /\ [][NextExplicit]_vars

(***************************************************************************)
(* SpecMatching: the explicit mode over manifest texts with placeholders    *)
(***************************************************************************)
MaxSegments == 3

Segments == {Placeholder(C_ab), Placeholder(C_aba), Placeholder(C_abc),
             Placeholder(C_ba), TAG, <<"\n">>}

MatchingDocs ==
    {RegistryDoc(Present(k), Present(a), Present(EncOk)) :
        k \in {<<>>, KeysOne, KeysTwo}, a \in {<<>>, AutoOne}}

InitMatching ==
    \E d \in MatchingDocs, text \in Words(Segments, MaxSegments) :
        Start(Flat((N_enaas :> RegistryFile(d))
                   @@ (N_a_secret :> ManifestFile(text, ManifestDoc(StrV(<<"a">>))))),
              <<N_enaas, N_a_secret>>)

SpecMatching == InitMatching /\ [][NextExplicit]_vars

(***************************************************************************)
(* SpecParity: the explicit mode over manifest texts of markers and lines   *)
(***************************************************************************)
MaxParityChunks == 5

ParityChunks == {TAG, <<"\n">>, <<"a">>}

InitParity ==
    \E text \in Words(ParityChunks, MaxParityChunks) :
        Start(Flat((N_enaas :> RegistryFile(GoodRegistry))
                   @@ (N_a_secret :> ManifestFile(text, ManifestDoc(StrV(<<"a">>))))),
              <<N_enaas, N_a_secret>>)

SpecParity == InitParity /\ [][NextExplicit]_vars

(***************************************************************************)
(* SpecRefs: the explicit mode over descriptors and manifest identities     *)
(***************************************************************************)
MaxRefItems == 2

\* Items of the descriptor's spec list: references named a and b; a secretRef
\* that is no mapping; one without a name; one without a name around a nested
\* reference; a reference inside a list; one whose name is null; a reference
\* that holds another reference
RefItems ==
    {SecretRef(StrV(<<"a">>)), SecretRef(StrV(<<"b">>)),
     MapV(<<Entry("secretRef", StrV(<<"a">>))>>),
     MapV(<<Entry("secretRef", MapV(<<Entry("key", StrV(<<"a">>))>>))>>),
     MapV(<<Entry("secretRef", MapV(<<Entry("x", SecretRef(StrV(<<"b">>)))>>))>>),
     MapV(<<Entry("envFrom", SeqV(<<SecretRef(StrV(<<"a">>))>>))>>),
     SecretRef(NoneV),
     MapV(<<Entry("secretRef",
                  MapV(<<Entry("name", StrV(<<"a">>)),
                         Entry("secretRef", MapV(<<Entry("name", StrV(<<"b">>))>>))>>))>>)}

RECURSIVE Tuples(_, _)
Tuples(S, n) ==
    IF n = 0 THEN {<<>>}
    ELSE LET shorter == Tuples(S, n - 1)
         IN  shorter \cup {Append(t, x) : t \in shorter, x \in S}

DcDocs == {DcDoc(items) : items \in Tuples(RefItems, MaxRefItems)} \cup {NoneV}

IdentityDocs ==
    {ManifestDoc(StrV(<<"a">>)), ManifestDoc(StrV(<<"b">>)), ManifestDoc(StrV(<<>>)),
     ManifestDoc(NoneV), MapV(<<Entry("kind", StrV(<<"a">>))>>),
     MapV(<<Entry("metadata", StrV(<<"a">>))>>)}

InitRefs ==
    \E d \in DcDocs, m \in IdentityDocs, withDc \in BOOLEAN :
        Start(Flat((N_enaas :> RegistryFile(GoodRegistry))
                   @@ (N_a_secret :> ManifestFile(<<"k", ":", " ", "v", "\n">>, m))
                   @@ (N_a_dc :> DcFile(d))),
              <<N_enaas, N_a_secret>> \o (IF withDc THEN <<N_a_dc>> ELSE <<>>))

SpecRefs == InitRefs /\ [][NextExplicit]_vars

(***************************************************************************)
(* Directory trees                                                         *)
(***************************************************************************)
\* What the files of the trees hold, by name
FixtureFile(name) ==
    CASE name = N_enaas       -> RegistryFile(GoodRegistry)
      [] name = N_ENAAS       -> MalformedRegistry
      [] name = N_x_json      -> RegistryFile(MapV(<<>>))
      [] name = N_a_secret    -> GoodManifest
      [] name = N_b_secret    -> OddManifest
      [] name = N_a_secret_ya -> GoodManifest
      [] OTHER                -> GoodDc

FilesOf(names) == [n \in names |-> FixtureFile(n)]

\* The files of one directory: none; a complete unit; a registry without a
\* manifest; several registries and manifests; a registry beside another
\* .json file, with a .yaml manifest; a manifest without a registry
FileMenus ==
    {{}, {N_enaas, N_a_secret, N_a_dc}, {N_enaas},
     {N_enaas, N_ENAAS, N_a_secret, N_b_secret},
     {N_enaas, N_x_json, N_a_secret_ya}, {N_x_json, N_a_secret}}

\* w/ holds p/ (holding n/), q/ and the hidden .h/
TreeFs(root, p, q, n) ==
    (0 :> Dir(FilesOf(root), (<<"p">> :> 1) @@ (<<"q">> :> 2) @@ (<<".", "h">> :> 4)))
    @@ (1 :> Dir(FilesOf(p), (<<"n">> :> 3)))
    @@ (2 :> Dir(FilesOf(q), <<>>))
    @@ (3 :> Dir(FilesOf(n), <<>>))
    @@ (4 :> Dir(FilesOf({N_enaas, N_a_secret}), <<>>))

\* w/ holds p/, and p/l is a symbolic link back to w/
CycleFs(root, p) ==
    (0 :> Dir(FilesOf(root), (<<"p">> :> 1)))
    @@ (1 :> Dir(FilesOf(p), (<<"l">> :> 0)))

\* q/ cannot be listed
Unlistable(f) == [f EXCEPT ![2].listable = FALSE]

\* The scan mode with no target, with a target that exists, with one that
\* does not
ScanCommands == {<<REVIEW_CMD>>, <<REVIEW_CMD, <<"p">>>>, <<REVIEW_CMD, <<"n">>>>,
                 <<REVIEW_CMD, <<"z">>>>}

(***************************************************************************)
(* SpecDiscovery: two scans of one tree                                    *)
(***************************************************************************)
DiscoveryTrees ==
    {TreeFs({}, p, {N_enaas, N_a_secret}, n) : p \in FileMenus, n \in FileMenus}
    \cup {Unlistable(TreeFs({N_enaas, N_b_secret}, {N_enaas, N_a_secret}, {N_enaas, N_a_secret}, {}))}
    \cup {CycleFs({}, p) : p \in {{N_enaas, N_a_secret, N_a_dc}, {N_enaas}}}

InitDiscovery ==
    \E f \in DiscoveryTrees, a \in ScanCommands : Start(f, a)

NextDiscovery ==
    \/ MainDiscovery
    \/ ScanCall
    \/ ScanIter
    \/ ScanReturn
    \/ ScanAgain

SpecDiscovery == InitDiscovery /\ [][NextDiscovery]_vars

(***************************************************************************)
(* SpecBatch: the scan mode, from the command line to the exit             *)
(***************************************************************************)
BatchTrees ==
    {TreeFs({}, p, {N_enaas, N_b_secret}, n) :
        p \in {{N_enaas, N_a_secret, N_a_dc}, {N_enaas, N_ENAAS, N_a_secret}},
        n \in {{}, {N_enaas, N_a_secret_ya}}}
    \cup {CycleFs({}, {N_enaas}), TreeFs({}, {}, {}, {})}

InitBatch ==
    \E f \in BatchTrees, a \in ScanCommands : Start(f, a)

NextBatch ==
    \/ MainDiscovery
    \/ ScanCall
    \/ ScanIter
    \/ ScanReturn
    \/ RunBatch
    \/ NextUnit
    \/ CheckFilesValidity
    \/ CheckSecretManifestValidity
    \/ CheckSecretMatching
    \/ CheckSecretReferenceValidity
    \/ AppendResult
    \/ ReviewRaises
    \/ BatchDone

SpecBatch == InitBatch /\ [][NextBatch]_vars

(***************************************************************************)
(* Spec: the program in both modes                                         *)
(***************************************************************************)
MainTrees ==
    {TreeFs({N_enaas, N_a_secret, N_b_secret, N_a_dc}, p, {}, {}) :
        p \in {{}, {N_enaas, N_a_secret}, {N_enaas, N_b_secret}}}

CommandLines ==
    ScanCommands
    \cup {<<>>, <<N_enaas>>, <<N_enaas, N_a_secret, N_a_dc, N_a_dc>>,
          <<N_enaas, N_a_secret>>, <<N_enaas, N_b_secret>>,
          <<N_enaas, N_a_secret, N_a_dc>>, <<N_ENAAS, N_a_secret, N_a_dc>>}

Init == \E f \in MainTrees, a \in CommandLines : Start(f, a)

Next ==
    \/ MainUsage
    \/ MainExplicit
    \/ MainDiscovery
    \/ ScanCall
    \/ ScanIter
    \/ ScanReturn
    \/ RunBatch
    \/ NextUnit
    \/ CheckFilesValidity
    \/ CheckSecretManifestValidity
    \/ CheckSecretMatching
    \/ CheckSecretReferenceValidity
    \/ AppendResult
    \/ ReviewRaises
    \/ BatchDone
    \/ ExitReview

Spec == Init /\ [][Next]_vars

(***************************************************************************)
(* Properties                                                              *)
(***************************************************************************)
\* The number of file errors of a file with a description
FileErrorCount(errs, name, description) ==
    Cardinality({i \in 1..Len(errs) :
                    errs[i].file_name = name /\ errs[i].description = description})

KeyErrorCount(errs, description) ==
    Cardinality({i \in 1..Len(errs) : errs[i].description = description})

\* The review is past its file validation
FilesChecked == pc \in {"manifest", "matching", "reference", "reviewed", "exit_review"}

\* C2: a registry file that exists and has zero bytes gets exactly one
\* "file is empty" file error and no JSON parse error, once the files are
\* validated.
C2_EmptyRegistryOneDefect ==
    (FilesChecked /\ Exists(fs, enaas_file) /\ FileAt(fs, enaas_file).text = <<>>)
    => /\ FileErrorCount(result.file_errors, enaas_file.name, "EmptyFile") = 1
       /\ FileErrorCount(result.file_errors, enaas_file.name, "JsonError") = 0

\* The missing links of encodedKeys: applications absent from keys, secret
\* groups absent under their application, keys absent under their secret group
MissingLinks(doc) ==
    LET keys_data == GetOrEmpty(doc, "keys")
        enc == GetOrEmpty(doc, "encodedKeys")
        apps == {a \in 1..Len(enc) : ~Has(keys_data, enc[a].k)}
        known == (1..Len(enc)) \ apps
        Under(a) == Get(keys_data, enc[a].k)
        NoGroup(a) == {g \in 1..Len(enc[a].v) : ~Has(Under(a), enc[a].v[g].k)}
        NoKey(a, g) == {k \in 1..Len(enc[a].v[g].v) :
                          ~InList(enc[a].v[g].v[k], Get(Under(a), enc[a].v[g].k))}
        groups == UNION {{<<a, g>> : g \in NoGroup(a)} : a \in known}
        keys == UNION {UNION {{<<a, g, k>> : k \in NoKey(a, g)} :
                              g \in (1..Len(enc[a].v)) \ NoGroup(a)} : a \in known}
    IN  Cardinality(apps) + Cardinality(groups) + Cardinality(keys)

\* The registry cross-checks run: both documents are loaded and the registry
\* has its three top-level keys
HasRequiredKeys(doc) ==
    doc.t = "map" /\ \A i \in 1..Len(required_keys) : Has(doc.items, required_keys[i])

MatchingRuns ==
    /\ pc = "matching"
    /\ Truthy(enaas_data)
    /\ Truthy(secret_data)
    /\ HasRequiredKeys(enaas_data)

\* C3: the encoded-key check records exactly one defect in the result for
\* every missing link of encodedKeys: the defects the matching step adds,
\* other than those of placeholder contents, are as many as the missing links.
C3_EncodedKeyDefectsRecorded ==
    [][(MatchingRuns /\ Get(enaas_data.items, "keys") # <<>>)
       => total_errors(result') - total_errors(result)
          - KeyErrorCount(result'.secret_key_errors, "NotInEnaas")
          = MissingLinks(enaas_data)]_vars

\* A placeholder content is accepted: group_key with the group free of
\* underscores and the key listed under the group of some application, or
\* template_value with the value listed under the template of some application
Accepted(doc, c) ==
    LET keys_data == GetOrEmpty(doc, "keys")
        auto == GetOrEmpty(doc, "autoKeys")
    IN  \/ \E a \in 1..Len(keys_data) :
             \E g \in 1..Len(keys_data[a].v) :
               \E k \in 1..Len(keys_data[a].v[g].v) :
                 /\ ~InList("_", keys_data[a].v[g].k)
                 /\ c = keys_data[a].v[g].k \o <<"_">> \o keys_data[a].v[g].v[k]
        \/ \E a \in 1..Len(auto) :
             \E t \in 1..Len(auto[a].v) :
               \E x \in 1..Len(auto[a].v[t].v) :
                 c = auto[a].v[t].k \o <<"_">> \o auto[a].v[t].v[x]

Rejected(c) == ~Accepted(enaas_data, c)

\* The key errors new are old followed by one error for each rejected
\* placeholder occurrence, in order, with the content as key and no group
ContentDefectsAdded(old, new) ==
    LET rejected == SelectSeq(_extract_placeholders(FileAt(fs, secret_file).text),
                              Rejected)
    IN  /\ Len(new) = Len(old) + Len(rejected)
        /\ SubSeq(new, 1, Len(old)) = old
        /\ \A i \in 1..Len(rejected) :
             /\ new[Len(old) + i].secret_key = rejected[i]
             /\ new[Len(old) + i].secret_name = <<>>

\* C4 as claimed: with both documents loaded and the three top-level keys
\* present, each extracted placeholder occurrence adds exactly one key error
\* iff its content is not accepted.
C4_ContentDefectsOriginal ==
    [][MatchingRuns
       => ContentDefectsAdded(result.secret_key_errors, result'.secret_key_errors)]_vars

\* C4 as amended: the same, provided the keys mapping is not empty.
C4_ContentDefects ==
    [][(MatchingRuns /\ Get(enaas_data.items, "keys") # <<>>)
       => ContentDefectsAdded(result.secret_key_errors, result'.secret_key_errors)]_vars

\* A review whose matching rejected some placeholder and accepted another
C4_Witness ==
    /\ pc = "reference"
    /\ Truthy(enaas_data) /\ Truthy(secret_data) /\ HasRequiredKeys(enaas_data)
    /\ Get(enaas_data.items, "keys") # <<>>
    /\ KeyErrorCount(result.secret_key_errors, "NotInEnaas") = 1
    /\ result.placeholder_count = 2

\* The identity of a manifest document: its metadata.name, a non-empty string
HasIdentity(doc) ==
    /\ doc.t = "map"
    /\ Has(doc.items, "metadata")
    /\ Get(doc.items, "metadata").t = "map"
    /\ Has(Get(doc.items, "metadata").items, "name")
    /\ Get(Get(doc.items, "metadata").items, "name").t = "str"
    /\ Get(Get(doc.items, "metadata").items, "name").s # <<>>

Identity(doc) == Get(Get(doc.items, "metadata").items, "name").s

\* The reference names discovered in the descriptor, in visit order
Discovered == RefNames(_find_secret_refs(dc_data, <<>>))

\* The reference check ran on a loaded descriptor and a manifest with an
\* identity, and found at least one reference, every name a string
ReferencesCompared ==
    /\ pc \in {"reviewed", "exit_review"}
    /\ dc_file # NoPath
    /\ Truthy(dc_data)
    /\ Truthy(secret_data)
    /\ HasIdentity(secret_data)
    /\ Discovered # <<>>
    /\ \A i \in 1..Len(Discovered) : Discovered[i].t = "str"

\* C5: the match flag is true iff every discovered reference name equals the
\* manifest identity, and the recorded pair is the identity and all the
\* discovered names joined by ", " in visit order.
C5_ReferenceMatch ==
    ReferencesCompared
    => /\ result.secret_ref_match
          <=> (\A i \in 1..Len(Discovered) : Discovered[i].s = Identity(secret_data))
       /\ result.secret_ref_names[1] = Identity(secret_data)
       /\ result.secret_ref_names[2]
          = Join(<<",", " ">>, [i \in 1..Len(Discovered) |-> Discovered[i].s])

\* Two references, the first matching the identity a, the second not
C5_Witness ==
    /\ ReferencesCompared
    /\ ~result.secret_ref_match
    /\ result.secret_ref_names = <<<<"a">>, <<"a", ",", " ", "b">>>>

\* A name without the suffix it ends with
Stripped(name, suffix) == SubSeq(name, 1, Len(name) - Len(suffix))

ManifestBase(name) ==
    IF EndsWith(name, S_secret_yml) THEN Stripped(name, S_secret_yml)
    ELSE Stripped(name, S_secret_yaml)

DescriptorBase(name) ==
    IF EndsWith(name, S_dc_yml) THEN Stripped(name, S_dc_yml)
    ELSE Stripped(name, S_dc_yaml)

\* C6: for a manifest name ending in _secret.yml/_secret.yaml and a descriptor
\* name ending in _dc.yml/_dc.yaml, the reviewer holds exactly one base-name
\* mismatch file error if the names without their suffixes differ, and none
\* if they are equal.
C6_BaseNameMismatch ==
    (/\ pc # "main"
     /\ dc_file # NoPath
     /\ EndsWith(secret_file.name, S_secret_yml) \/ EndsWith(secret_file.name, S_secret_yaml)
     /\ EndsWith(dc_file.name, S_dc_yml) \/ EndsWith(dc_file.name, S_dc_yaml))
    => FileErrorCount(result.file_errors, dc_file.name, "BaseNameMismatch")
       = IF ManifestBase(secret_file.name) # DescriptorBase(dc_file.name) THEN 1 ELSE 0

\* The 1-based offsets at which a marker starts in a text
Markers(text) ==
    {i \in 1..(Len(text) - Len(TAG) + 1) : SubSeq(text, i, i + Len(TAG) - 1) = TAG}

Newlines(text) == {i \in 1..Len(text) : text[i] = "\n"}

\* The line and the column of offset i of a text
LineNo(text, i) == 1 + Cardinality({j \in Newlines(text) : j < i})

Column(text, i) ==
    LET before == {j \in Newlines(text) : j < i}
    IN  IF before = {} THEN i ELSE i - (CHOOSE j \in before : \A k \in before : j >= k)

MarkersOn(text, n) == {i \in Markers(text) : LineNo(text, i) = n}

\* The marker-parity pass has just run on the manifest text
ParityPassRan == pc = "matching" /\ Truthy(secret_data) /\ CanRead(fs, secret_file)

\* C9: the marker-parity pass records exactly one defect for each line whose
\* marker count is odd, at that line and at the column of its first marker,
\* and none for a line whose marker count is even.
C9_MarkerParity ==
    ParityPassRan
    => LET text == FileAt(fs, secret_file).text
           errs == result.secret_key_errors
       IN  /\ \A e \in 1..Len(errs) :
                errs[e].line_number \in 1..(Cardinality(Newlines(text)) + 1)
           /\ \A n \in 1..(Cardinality(Newlines(text)) + 1) :
                LET on == MarkersOn(text, n)
                    here == {e \in 1..Len(errs) : errs[e].line_number = n}
                IN  IF Cardinality(on) % 2 = 1
                    THEN /\ Cardinality(here) = 1
                         /\ \A e \in here :
                              /\ errs[e].description = "TagUnpaired"
                              /\ \E i \in on :
                                   /\ \A k \in on : i <= k
                                   /\ errs[e].char_position = Column(text, i)
                    ELSE here = {}

\* Two markers on the first line and none recorded for it, one marker at
\* column 2 of the second line and one defect recorded for it
C9_Witness ==
    /\ ParityPassRan
    /\ Cardinality(MarkersOn(FileAt(fs, secret_file).text, 1)) = 2
    /\ Len(result.secret_key_errors) = 1
    /\ result.secret_key_errors[1].line_number = 2
    /\ result.secret_key_errors[1].char_position = 2

\* C10: when the parsed registry lacks one of keys, autoKeys, encodedKeys, the
\* matching step records the absence as one defect of the run, adds no
\* placeholder-content defect and prints no encoded-key line.
C10_MissingKeyRecorded ==
    [][(/\ pc = "matching"
        /\ Truthy(secret_data)
        /\ enaas_data.t = "map"
        /\ ~HasRequiredKeys(enaas_data))
       => /\ total_errors(result') = total_errors(result) + 1
          /\ KeyErrorCount(result'.secret_key_errors, "NotInEnaas") = 0
          /\ \A i \in 1..Len(console') :
               console'[i].msg \notin {"EncodedAppMissing", "EncodedSecretMissing",
                                       "EncodedKeyMissing"}]_vars


(***************************************************************************)
(* The exit code, discovery and the batch                                  *)
(***************************************************************************)
Exited == pc \in {"exit_usage", "exit_crash", "exit_review", "exit_batch"}

\* The run ended normally and recorded no defect
RunWithoutDefects ==
    \/ pc = "exit_review" /\ total_errors(result) = 0
    \/ pc = "exit_batch" /\ \A i \in DOMAIN results : total_errors(results[i]) = 0

\* C1: in both modes the process exits with code 0 if and only if the run
\* produced zero defects, and with code 1 otherwise (a usage error included)
C1_ExitCode ==
    Exited => /\ exit_code \in {0, 1}
              /\ exit_code = 0 <=> RunWithoutDefects

UnitsOf(units) == {units[i] : i \in DOMAIN units}
Pairs(units) == {<<u.enaas, u.secret>> : u \in UnitsOf(units)}
UnitDirs(units) == {u.enaas.dir : u \in UnitsOf(units)}

ScannedTwice == pc = "scanned" /\ first_scan.done

\* The files of a directory whose names make them a registry, a manifest
RegistryNames(dir) ==
    {n \in DOMAIN fs[NodeOf(fs, dir)].files :
        EndsWith(n, S_json) /\ Contains(Lower(n), S_enaas)}
ManifestNames(dir) ==
    {n \in DOMAIN fs[NodeOf(fs, dir)].files :
        EndsWith(n, S_secret_yml) \/ EndsWith(n, S_secret_yaml)}

InReview == pc \in {"files", "manifest", "matching", "reference", "reviewed"}

\* A result holding exactly one synthetic file defect and nothing else
Synthetic(r) ==
    /\ Len(r.file_errors) = 1
    /\ r.file_errors[1].description = "CheckFailed"
    /\ r.secret_key_errors = <<>>

\* Between the units: one result per unit reached so far, unit by unit in
\* discovery order, and the batch ends only after the last unit
BatchProgress ==
    /\ pc = "next" => Len(results) = batch_i
    /\ (InReview /\ batch_i > 0) =>
          /\ Len(results) = batch_i - 1
          /\ batch_i <= Len(file_combinations)
          /\ enaas_file = file_combinations[batch_i].enaas
          /\ secret_file = file_combinations[batch_i].secret
          /\ dc_file = file_combinations[batch_i].dc
    /\ pc = "exit_batch" => Len(results) = Len(file_combinations)

\* Leaving a unit appends its result, or the synthetic result if it raised
UnitStep ==
    (InReview /\ batch_i > 0 /\ ~InReview') =>
        /\ pc' = "next"
        /\ \E r \in {result, ErrorResult(batch_i)} :
             /\ results' = Append(results, r)
             /\ (pc # "reviewed" \/ r # result) => Synthetic(r)
        /\ file_combinations' = file_combinations
        /\ batch_i' = batch_i

\* C8: in batch mode the failure of one unit never stops the batch: every
\* discovered unit is processed in discovery order, the results hold exactly
\* one entry per unit, and the entry of a unit whose verification raised
\* holds exactly one synthetic file defect
C8_BatchContinues == [](BatchProgress) /\ [][UnitStep]_vars

\* A batch ended whose first unit raised, whose second has defects and whose
\* third was reviewed without any
C8_Witness ==
    /\ pc = "exit_batch"
    /\ Len(results) >= 3
    /\ results[1] = ErrorResult(1)
    /\ ~Synthetic(results[2]) /\ has_errors(results[2])
    /\ ~has_errors(results[3])

(***************************************************************************)
(* SpecManifest: the explicit mode over manifests that load, that parse to *)
(* an empty document, that do not parse                                    *)
(***************************************************************************)
MaxManifestChunks == 3

\* Loaded: "k: " and a body of markers, contents and line breaks
LoadedManifests ==
    {File(<<"k", ":", " ">> \o w, JsonBad(0), YamlOk(ManifestDoc(StrV(<<"a">>)))) :
        w \in Words({TAG, C_ab, <<"\n">>}, MaxManifestChunks)}

\* Comment lines only: yaml.safe_load gives None
CommentManifests ==
    {File(<<"#">> \o w, JsonBad(0), YamlOk(NoneV)) :
        w \in Words({TAG, C_ab, <<"\n", "#">>}, MaxManifestChunks)}

\* A flow sequence that is never closed: yaml.safe_load raises
UnparsedManifests ==
    {File(<<"k", ":", " ", "[">> \o w, JsonBad(0), YamlBad(TRUE, 0, 4)) :
        w \in Words({TAG, C_ab, <<"\n">>}, MaxManifestChunks)}

InitManifest ==
    \E m \in LoadedManifests \cup CommentManifests \cup UnparsedManifests,
       unreadable \in BOOLEAN :
        Start(Flat((N_enaas :> RegistryFile(GoodRegistry))
                   @@ (N_a_secret :> IF unreadable THEN Unreadable(m) ELSE m)),
              <<N_enaas, N_a_secret>>)

SpecManifest == InitManifest /\ [][NextExplicit]_vars

\* The manifest step is about to run on a manifest that exists and can be read
ManifestStep == pc = "manifest" /\ Exists(fs, secret_file) /\ CanRead(fs, secret_file)

\* C11: on a manifest file that exists and is readable, the marker-parity
\* pass and the placeholder extraction pass both run over its raw text,
\* whatever the outcome of its YAML parse: the step counts the extracted
\* placeholders and records the parity defects of the text.
C11_PassesAlwaysRun ==
    [][ManifestStep
       => LET text == FileAt(fs, secret_file).text
          IN  /\ result'.placeholder_count = Len(_extract_placeholders(text))
              /\ result'.secret_key_errors =
                   result.secret_key_errors
                   \o _check_placeholder_tags(secret_file.name, text)]_vars

(***************************************************************************)
(* SpecMissing: the explicit mode over units with missing files            *)
(***************************************************************************)
\* A manifest with an odd indentation on its second line
IndentedManifest ==
    ManifestFile(<<"k", ":", "\n", " ", "x", ":", " ", "y">>, ManifestDoc(StrV(<<"a">>)))

MissingRegistries == {Absent} \cup {Present(x) : x \in
    {RegistryFile(GoodRegistry), MalformedRegistry, EmptyFile}}

MissingManifests == {Absent} \cup {Present(x) : x \in
    {GoodManifest, IndentedManifest, BrokenManifest, EmptyFile, Unreadable(GoodManifest)}}

MissingDescriptors == {Absent} \cup {Present(x) : x \in
    {GoodDc, BrokenManifest, EmptyFile}}

InitMissing ==
    \E r \in MissingRegistries, m \in MissingManifests, d \in MissingDescriptors,
       withDc \in BOOLEAN, sn \in {N_a_secret, N_b_secret, N_a_secret_ya} :
        Start(Flat(Maybe(N_enaas, r) @@ Maybe(sn, m) @@ Maybe(N_a_dc, d)),
              <<N_enaas, sn>> \o (IF withDc THEN <<N_a_dc>> ELSE <<>>))

SpecMissing == InitMissing /\ [][NextExplicit]_vars

\* The file errors a list holds for one file name
ErrorsNamed(errs, name) ==
    LET Named(e) == e.file_name = name IN SelectSeq(errs, Named)

\* The file errors that validating one file by itself records
OwnDefects(path) ==
    ValidateFiles(fs, LoadState(NoneV, NoneV, NoneV, <<>>), <<path>>,
                  secret_file, dc_file).file_errors

\* The distinct files of the unit under review
UnitFiles == {enaas_file, secret_file} \cup (IF dc_file = NoPath THEN {} ELSE {dc_file})

\* What file validation did to the file errors old to give new
FilesValidated(old, new) ==
    /\ Len(new) >= Len(old)
    /\ SubSeq(new, 1, Len(old)) = old
    /\ LET added == SubSeq(new, Len(old) + 1, Len(new))
       IN  /\ \A p \in UnitFiles :
                ErrorsNamed(added, p.name) =
                    IF Exists(fs, p) THEN OwnDefects(p)
                    ELSE <<FileError(p.name, 0, 0, "LoadFailed", <<>>)>>
           /\ \A i \in 1..Len(added) : \E p \in UnitFiles : added[i].file_name = p.name

\* C12: when a file of a unit does not exist, file validation records exactly
\* one file error for it, and every other file of the unit is still validated
\* and gets the file errors of its own, whichever file is the missing one.
C12_MissingFileOneDefect ==
    [][pc = "files" => FilesValidated(result.file_errors, result'.file_errors)]_vars

\* The registry is missing and has its one error, the manifest is validated
\* after it and has the error of its odd indentation
C12_Witness ==
    /\ pc = "manifest"
    /\ ~Exists(fs, enaas_file)
    /\ Exists(fs, secret_file)
    /\ Len(ErrorsNamed(result.file_errors, enaas_file.name)) = 1
    /\ \E i \in 1..Len(result.file_errors) :
         /\ result.file_errors[i].file_name = secret_file.name
         /\ result.file_errors[i].description = "OddIndent"

(***************************************************************************)
(* Discovery: the units and the directories examined                       *)
(***************************************************************************)
\* The scan has a root: no target was named, or the named target was found
RootResolved ==
    ~(/\ Len(argv) = 2
      /\ argv[2] # <<>>
      /\ _find_directory_recursively(fs, <<>>, CwdName, argv[2], 0) = {})

Scanned == pc = "scanned" /\ RootResolved

\* The paths from dir down through non-hidden directories, depth levels
\* below the root already, within depth 10
RECURSIVE ReachablePaths(_, _)
ReachablePaths(dir, depth) ==
    IF depth > MaxDepth THEN {}
    ELSE {dir} \cup UNION {ReachablePaths(dir \o <<c>>, depth + 1) :
                           c \in {x \in SubDirs(fs, dir) : ~Hidden(x)}}

\* A directory that can be listed and holds an eligible registry file and a
\* secret manifest file
FormsUnit(dir) ==
    /\ fs[NodeOf(fs, dir)].listable
    /\ RegistryNames(dir) # {}
    /\ ManifestNames(dir) # {}

\* The units found whose registry lies in the directory node n
UnitsIn(n) ==
    {i \in DOMAIN file_combinations : NodeOf(fs, file_combinations[i].enaas.dir) = n}

\* C13: discovery returns exactly one unit for each directory that is
\* reachable from the resolved root through non-hidden directories within
\* depth 10 and holds an eligible registry file and a secret manifest file,
\* and no unit for any other directory.
C13_OneUnitPerDirectory ==
    Scanned =>
        LET paths == ReachablePaths(scan_root, 0)
        IN  /\ \A p \in paths :
                 Cardinality(UnitsIn(NodeOf(fs, p))) = IF FormsUnit(p) THEN 1 ELSE 0
            /\ \A i \in DOMAIN file_combinations :
                 file_combinations[i].enaas.dir \in paths

\* The same, a directory being taken for the path the scan reached it by:
\* this is what the scan guarantees
UnitPerPath ==
    Scanned =>
        LET paths == ReachablePaths(scan_root, 0)
            At(p) == {i \in DOMAIN file_combinations :
                        file_combinations[i].enaas.dir = p}
        IN  /\ \A p \in paths :
                 /\ Cardinality(At(p)) = IF FormsUnit(p) THEN 1 ELSE 0
                 /\ \A i \in At(p) :
                      /\ file_combinations[i].enaas.name \in RegistryNames(p)
                      /\ file_combinations[i].secret.dir = p
                      /\ file_combinations[i].secret.name \in ManifestNames(p)
            /\ \A i \in DOMAIN file_combinations :
                 file_combinations[i].enaas.dir \in paths

\* C14: the scan examines each directory at most once in a run, and never a
\* directory more than 10 levels below the resolved root.
C14_EachDirectoryOnce ==
    /\ \A p \in scanned_dirs, q \in scanned_dirs :
         NodeOf(fs, p) = NodeOf(fs, q) => p = q
    /\ \A p \in scanned_dirs : Len(p) - Len(scan_root) <= MaxDepth

\* The scan ends
ScanEnds == <>(pc = "scanned" /\ first_scan.done)

FairDiscovery == SpecDiscovery /\ WF_vars(NextDiscovery)

(***************************************************************************)
(* SpecIndent: the explicit mode over manifest texts of spaces and tabs    *)
(***************************************************************************)
MaxIndentChunks == 4

IndentChunks == {<<" ">>, <<"\t">>, <<"x">>, <<"#">>, <<"\n">>}

\* What the YAML parser makes of such a text: nothing of a text without
\* content, an error of a text with a tab, a document otherwise
ParseOfIndented(text) ==
    IF ~NonBlank(text) THEN YamlOk(NoneV)
    ELSE IF Contains(text, <<"\t">>) THEN YamlBad(TRUE, 0, 0)
    ELSE YamlOk(ManifestDoc(StrV(<<"a">>)))

InitIndent ==
    \E text \in Words(IndentChunks, MaxIndentChunks) :
        Start(Flat((N_enaas :> RegistryFile(GoodRegistry))
                   @@ (N_a_secret :> File(text, JsonBad(0), ParseOfIndented(text)))),
              <<N_enaas, N_a_secret>>)

SpecIndent == InitIndent /\ [][NextExplicit]_vars

\* The offsets of the characters of line n of a text, its line break excluded
OnLine(text, n) == {i \in 1..Len(text) : text[i] # "\n" /\ LineNo(text, i) = n}

\* The offsets of line n that hold neither a space nor a tab
Ink(text, n) == {i \in OnLine(text, n) : text[i] \notin {" ", "\t"}}

\* The tabs of line n before its first non-whitespace character
LeadingTabs(text, n) ==
    {i \in OnLine(text, n) : text[i] = "\t" /\ \A k \in Ink(text, n) : i < k}

\* The run of spaces line n starts with
LeadingSpaces(text, n) ==
    {i \in OnLine(text, n) : \A j \in OnLine(text, n) : j <= i => text[j] = " "}

\* Line n is neither blank nor a comment
Examined(text, n) ==
    /\ Ink(text, n) # {}
    /\ \A i \in Ink(text, n) : (\A k \in Ink(text, n) : i <= k) => text[i] # "#"

\* The file errors of one kind recorded for line n of the manifest
IndentErrors(description, n) ==
    {i \in 1..Len(result.file_errors) :
        /\ result.file_errors[i].file_name = secret_file.name
        /\ result.file_errors[i].description = description
        /\ result.file_errors[i].line_number = n}

IndentScanRan == pc = "manifest" /\ Exists(fs, secret_file) /\ CanRead(fs, secret_file)

\* C15: the indentation scan examines exactly the non-blank, non-comment
\* lines: it records a tab defect for a line iff a tab occurs before the
\* line's first non-whitespace character, at that tab's column, and an
\* odd-indentation defect iff the line's run of leading spaces has a positive
\* count that is not a multiple of two, at column count + 1.
C15_IndentationScan ==
    IndentScanRan =>
        LET text == FileAt(fs, secret_file).text
        IN  \A n \in 1..(Cardinality(Newlines(text)) + 1) :
              LET tabs == LeadingTabs(text, n)
                  spaces == Cardinality(LeadingSpaces(text, n))
                  tabErrs == IndentErrors("TabIndent", n)
                  oddErrs == IndentErrors("OddIndent", n)
              IN  /\ Cardinality(tabErrs) =
                       IF Examined(text, n) /\ tabs # {} THEN 1 ELSE 0
                  /\ \A e \in tabErrs : \E i \in tabs :
                       /\ \A k \in tabs : i <= k
                       /\ result.file_errors[e].char_position = Column(text, i)
                  /\ Cardinality(oddErrs) =
                       IF Examined(text, n) /\ spaces > 0 /\ spaces % 2 = 1
                       THEN 1 ELSE 0
                  /\ \A e \in oddErrs :
                       result.file_errors[e].char_position = spaces + 1

(***************************************************************************)
(* SpecUnits: batches over trees that hold the same unit more than once    *)
(***************************************************************************)
\* A unit with an unpaired marker, with a malformed registry, without fault,
\* with a descriptor of another base name; no unit
UnitMenus ==
    {{N_enaas, N_b_secret}, {N_ENAAS, N_a_secret, N_a_dc},
     {N_enaas, N_a_secret, N_a_dc}, {N_enaas, N_b_secret, N_a_dc}, {}}

UnitTrees == {TreeFs({}, p, q, n) : p \in UnitMenus, q \in UnitMenus, n \in UnitMenus}

InitUnits == \E f \in UnitTrees : Start(f, <<REVIEW_CMD>>)

SpecUnits == InitUnits /\ [][NextBatch]_vars

\* Two units with the same file names and the same file contents
SameFiles(u, v) ==
    /\ u.enaas.name = v.enaas.name
    /\ u.secret.name = v.secret.name
    /\ u.dc.name = v.dc.name
    /\ FileAt(fs, u.enaas) = FileAt(fs, v.enaas)
    /\ FileAt(fs, u.secret) = FileAt(fs, v.secret)
    /\ (u.dc # NoPath => FileAt(fs, u.dc) = FileAt(fs, v.dc))

\* The review of a unit starts with no document loaded and no defect but
\* those of the names of its own files
FreshStart ==
    (pc = "files" /\ batch_i > 0) =>
        /\ enaas_data = NoneV /\ secret_data = NoneV /\ dc_data = NoneV
        /\ result.secret_key_errors = <<>>
        /\ result.placeholder_count = 0
        /\ ~result.secret_ref_match
        /\ \A i \in 1..Len(result.file_errors) :
             /\ result.file_errors[i].description
                  \in {"EnaasNotJson", "SecretSuffix", "DcSuffix", "BaseNameMismatch"}
             /\ result.file_errors[i].file_name
                  \in {enaas_file.name, secret_file.name, dc_file.name}

\* Units with the same files have the same result, wherever they stand in the
\* batch and whatever units stand before them
SameFilesSameResult ==
    \A i \in DOMAIN results, j \in DOMAIN results :
        (/\ results[i] # ErrorResult(i)
         /\ results[j] # ErrorResult(j)
         /\ SameFiles(file_combinations[i], file_combinations[j]))
        => results[i] = results[j]

\* A step of the batch leaves the results recorded so far as they are
EarlierResultsKept ==
    (InReview /\ batch_i > 0) \/ pc = "next"
    => /\ Len(results') >= Len(results)
       /\ SubSeq(results', 1, Len(results)) = results

MatcherKeepsDefects ==
    pc = "reference" =>
        /\ result'.file_errors = result.file_errors
        /\ result'.secret_key_errors = result.secret_key_errors
        /\ result'.placeholder_count = result.placeholder_count
        /\ has_errors(result') = has_errors(result)

\* has_errors is true exactly when one of the defect lists is not empty
ErrorsAreDefects ==
    has_errors(result) <=> (result.file_errors # <<>> \/ result.secret_key_errors # <<>>)

\* The matcher recorded a pair of names that do not match
MismatchRecorded == result.secret_ref_names[1] # <<>> /\ ~result.secret_ref_match

\* A run that ends with a mismatch and empty defect lists has no error, and
\* exits with code 0
MismatchAlone ==
    (/\ pc = "exit_review"
     /\ MismatchRecorded
     /\ result.file_errors = <<>>
     /\ result.secret_key_errors = <<>>)
    => ~has_errors(result) /\ exit_code = 0

\* C17: the reference matcher leaves both defect lists unchanged in every
\* outcome and only sets the match flag and the name pair; has_errors is true
\* exactly when a defect list is non-empty, so a run whose only finding is a
\* reference-name mismatch ends with has_errors false.
C17_MatcherFrame ==
    [](ErrorsAreDefects /\ MismatchAlone) /\ [][MatcherKeepsDefects]_vars

\* A run ended whose only finding is a mismatch of reference names
C17_Witness ==
    /\ pc = "exit_review"
    /\ MismatchRecorded
    /\ result.secret_ref_names[2] # <<>>
    /\ ~has_errors(result)
    /\ exit_code = 0

====
